---- MODULE Spec2Model ----
(***************************************************************************)
(* Request governance layer of goodreads-scraper: the TTL cache            *)
(* (internal/cache/memory.go), the per-IP rate limiter of the middleware   *)
(* package, and the routes and handlers of internal/api/handlers.go that   *)
(* put the two in front of the scraper.  Time is a discrete clock `now`;   *)
(* every call of time.Now() reads it.                                      *)
(***************************************************************************)
EXTENDS Integers, FiniteSets, Sequences, TLC

\* ------------------------------------------------------------------ bounds
MaxTime == 2
MaxTTL == 1
MaxLimit == 2
MaxRequests == 4
MaxServed == 2

\* clock readings per second: a limiter that refills rps tokens per second
\* gains rps/TicksPerSec tokens per clock reading, so token counts are kept
\* in units of 1/TicksPerSec token.
TicksPerSec == 2

Keys == {"k1", "k2"}
Values == {"v1", "v2"}
Callers == {"c1", "c2"}

\* time.Duration values handed to NewMemoryCache; the constructor accepts
\* any duration, a negative one included.
TTLs == (0 - 1)..MaxTTL

\* The zero time.Time (January 1, year 1): before every clock reading.
ZeroTime == 0 - (MaxTime + MaxTTL + 2)

NoCaller == "none"

IPs == {"A", "B"}
Reqs == {"r1", "r2"}

\* The configured limit: every call in the repository passes it as both
\* arguments, RateLimitMiddleware(n, n) and NewIPRateLimiter(n, n).  getIntEnv
\* accepts any integer, a negative one included.
Limits == (0 - 1)..MaxLimit

NoTime == 0 - 1

VARIABLES
    now,      \* the clock read by time.Now()
    ttl,      \* MemoryCache.ttl
    data,     \* MemoryCache.data: a map, DOMAIN data are the keys present
    mutex,    \* MemoryCache.mutex: [writer, readers]
    call,     \* per caller goroutine: the cache call it is inside
    swpc,     \* position of the cleanup goroutine
    ret,      \* what the step just taken returned to its caller, or what a
              \* cleanup pass just did (NoRet for every other step)
    hist      \* per key: the last completed Set, whether it overwrote an
              \* entry that was present, and whether the entry was removed
              \* (Delete or cleanup) after it

cacheVars == <<ttl, data, mutex, call, swpc, ret, hist>>

VARIABLES
    rps,      \* IPRateLimiter.limit
    burst,    \* IPRateLimiter.burst
    limiters, \* IPRateLimiter.limiters: ip -> address of its *rate.Limiter
    heap,     \* the rate.Limiter objects allocated so far, by address
    mu,       \* IPRateLimiter.mu: "free", or "cleanup" during a cleanup pass
    pending,  \* the keys the range loop of the cleanup pass has yet to visit
    req,      \* per request goroutine: its position in the middleware
    nreq,     \* number of requests received so far
    resp,     \* what the step just taken wrote to its response (NoResp if
              \* it wrote nothing)
    stat      \* per identity: the history of its requests

limVars == <<rps, burst, limiters, heap, mu, pending, req, nreq, resp, stat>>

VARIABLES
    quota,    \* per tier: the limit its middleware was constructed with
    registry, \* per tier: IPRateLimiter.limiters of its middleware
    buckets,  \* per tier: the rate.Limiter objects of its registry, by address
    conn,     \* per connection goroutine: the request it serves and how far
              \* the request is along the handler chain of its route
    nconn,    \* number of requests accepted so far
    served,   \* per cache key: the value and the time of the last response
              \* that was sent with X-Cache: MISS
    out       \* the response the step just taken sent (NoOut if it sent
              \* none)

apiVars == <<quota, registry, buckets, conn, nconn, served>>

vars == <<now, cacheVars, limVars, apiVars, out>>

\* ------------------------------------------------------------ responses
NoOut == [status |-> 0, by |-> "-", route |-> "-", cache |-> "-", body |-> "-",
          limit |-> 0, remaining |-> 0, retryAfter |-> 0]

\* ------------------------------------------------------------ time.Time
\* t.After(u) turned into "not before"
NotBefore(t, u) == t >= u

\* t.After(u)
After(t, u) == t > u

\* t.Add(d)
Add(t, d) == t + d

\* ------------------------------------------------------------ CacheItem
CacheItem(v, e) == [Data |-> v, ExpiresAt |-> e]

\* ------------------------------------------------------------ sync.RWMutex
\* an RLock that does not wait for the writer
CanRLockAlways(m) == TRUE

\* RLock returns only while no writer holds the mutex
CanRLock(m) == m.writer = NoCaller

\* a Lock that waits for nobody
CanLockAlways(m) == TRUE

\* Lock returns only while nobody holds the mutex
CanLock(m) == m.writer = NoCaller /\ m.readers = {}

RLock(m, g) == [m EXCEPT !.readers = @ \cup {g}]

RUnlock(m, g) == [m EXCEPT !.readers = @ \ {g}]

Lock(m, g) == [m EXCEPT !.writer = g]

Unlock(m) == [m EXCEPT !.writer = NoCaller]

\* ------------------------------------------------------------ helpers
Idle == [pc |-> "idle", key |-> "-", val |-> "-", tmp |-> 0]

NoRet == [op |-> "none", key |-> "-", found |-> FALSE, val |-> "nil",
          exp |-> ZeroTime, at |-> 0, total |-> 0, active |-> 0, expired |-> 0]

NoHist == [set |-> FALSE, val |-> "-", at |-> 0, removed |-> FALSE, over |-> FALSE]

\* an assignment that only inserts: a key that is present keeps its entry
MapAssignIfAbsent(m, k, v) == [x \in DOMAIN m \cup {k} |-> IF x \in DOMAIN m THEN m[x] ELSE v]

\* m[k] = v on a Go map
MapAssign(m, k, v) == [x \in DOMAIN m \cup {k} |-> IF x = k THEN v ELSE m[x]]

\* a delete that clears the map
MapDeleteAll(m, k) == << >>

\* a delete that removes nothing
MapDeleteNothing(m, k) == m

\* delete(m, k) on a Go map
MapDelete(m, k) == [x \in DOMAIN m \ {k} |-> m[x]]

\* ------------------------------------------------------------ NewMemoryCache
NewMemoryCache(d) ==
    /\ ttl = d
    /\ data = << >>
    /\ mutex = [writer |-> NoCaller, readers |-> {}]
    /\ swpc = "wait"

\* ------------------------------------------------------------ Get
\* c.mutex.RLock()
GetRLock(g, k) ==
    /\ call[g].pc = "idle"
    /\ CanRLock(mutex)
    /\ mutex' = RLock(mutex, g)
    /\ call' = [call EXCEPT ![g] = [Idle EXCEPT !.pc = "get", !.key = k]]
    /\ ret' = NoRet /\ UNCHANGED <<now, ttl, data, swpc, hist>>
    /\ UNCHANGED limVars
    /\ out' = NoOut /\ UNCHANGED apiVars

\* a Get that skips the expiry check
GetIgnoringExpiry(m, k, t) ==
    IF k \notin DOMAIN m THEN [found |-> FALSE, val |-> "nil", exp |-> ZeroTime]
    ELSE [found |-> TRUE, val |-> m[k].Data, exp |-> m[k].ExpiresAt]

\* a Get whose keys all collide on one slot
GetCollidingKeys(m, k, t) ==
    IF "k1" \notin DOMAIN m \/ After(t, m["k1"].ExpiresAt)
    THEN [found |-> FALSE, val |-> "nil", exp |-> ZeroTime]
    ELSE [found |-> TRUE, val |-> m["k1"].Data, exp |-> m["k1"].ExpiresAt]

\* the value Get returns for key k at clock reading t
Get(m, k, t) ==
    IF k \notin DOMAIN m THEN [found |-> FALSE, val |-> "nil", exp |-> ZeroTime]
    ELSE IF After(t, m[k].ExpiresAt)
         THEN [found |-> FALSE, val |-> "nil", exp |-> ZeroTime]
         ELSE [found |-> TRUE, val |-> m[k].Data, exp |-> m[k].ExpiresAt]

\* a Get that deletes the entry it finds expired
GetReturnEvicting(g) ==
    /\ call[g].pc = "get"
    /\ LET k == call[g].key
           r == Get(data, k, now)
       IN /\ ret' = [NoRet EXCEPT !.op = "Get", !.key = k, !.found = r.found,
                                  !.val = r.val, !.exp = r.exp, !.at = now]
          /\ data' = IF r.found THEN data ELSE MapDelete(data, k)
    /\ mutex' = RUnlock(mutex, g)
    /\ call' = [call EXCEPT ![g] = Idle]
    /\ UNCHANGED <<now, ttl, swpc, hist>>
    /\ UNCHANGED limVars
    /\ out' = NoOut /\ UNCHANGED apiVars

\* the lookup, the expiry check, the deferred RUnlock and the return
GetReturn(g) ==
    /\ call[g].pc = "get"
    /\ LET r == Get(data, call[g].key, now) IN
         ret' = [NoRet EXCEPT !.op = "Get", !.key = call[g].key,
                              !.found = r.found, !.val = r.val,
                              !.exp = r.exp, !.at = now]
    /\ mutex' = RUnlock(mutex, g)
    /\ call' = [call EXCEPT ![g] = Idle]
    /\ UNCHANGED <<now, ttl, data, swpc, hist>>
    /\ UNCHANGED limVars
    /\ out' = NoOut /\ UNCHANGED apiVars

\* ------------------------------------------------------------ Set
\* c.mutex.Lock()
SetLock(g, k, v) ==
    /\ call[g].pc = "idle"
    /\ CanLock(mutex)
    /\ mutex' = Lock(mutex, g)
    /\ call' = [call EXCEPT ![g] = [Idle EXCEPT !.pc = "set", !.key = k, !.val = v]]
    /\ ret' = NoRet /\ UNCHANGED <<now, ttl, data, swpc, hist>>
    /\ UNCHANGED limVars
    /\ out' = NoOut /\ UNCHANGED apiVars

\* a Set whose entry has expired when it is written
SetAlreadyExpired(t, d) == t - 1

\* ExpiresAt of the item a Set builds at clock reading t
SetExpiresAt(t, d) == Add(t, d)

\* The CacheItem literal is built (time.Now() is read here) and the map
\* assignment starts copying it into the slot: the Data word is stored, the
\* ExpiresAt word of the slot is still the old one (the zero time for a new
\* slot).
SetStoreData(g) ==
    /\ call[g].pc = "set"
    /\ LET k == call[g].key
           old == IF k \in DOMAIN data THEN data[k].ExpiresAt ELSE ZeroTime
       IN data' = MapAssign(data, k, CacheItem(call[g].val, old))
    /\ call' = [call EXCEPT ![g].pc = "setmid", ![g].tmp = SetExpiresAt(now, ttl)]
    /\ ret' = NoRet /\ UNCHANGED <<now, ttl, mutex, swpc, hist>>
    /\ UNCHANGED limVars
    /\ out' = NoOut /\ UNCHANGED apiVars

\* the assignment finishes, then the deferred Unlock
SetStoreExpiresAt(g) ==
    /\ call[g].pc = "setmid"
    /\ LET k == call[g].key IN
         /\ data' = MapAssign(data, k, CacheItem(call[g].val, call[g].tmp))
         /\ hist' = [hist EXCEPT ![k] = [set |-> TRUE, val |-> call[g].val,
                                         at |-> call[g].tmp - ttl, removed |-> FALSE,
                                         over |-> hist[k].set /\ ~hist[k].removed]]
    /\ mutex' = Unlock(mutex)
    /\ call' = [call EXCEPT ![g] = Idle]
    /\ ret' = NoRet /\ UNCHANGED <<now, ttl, swpc>>
    /\ UNCHANGED limVars
    /\ out' = NoOut /\ UNCHANGED apiVars

\* ------------------------------------------------------------ Delete
\* c.mutex.Lock()
DeleteLock(g, k) ==
    /\ call[g].pc = "idle"
    /\ CanLock(mutex)
    /\ mutex' = Lock(mutex, g)
    /\ call' = [call EXCEPT ![g] = [Idle EXCEPT !.pc = "delete", !.key = k]]
    /\ ret' = NoRet /\ UNCHANGED <<now, ttl, data, swpc, hist>>
    /\ UNCHANGED limVars
    /\ out' = NoOut /\ UNCHANGED apiVars

\* delete(c.data, key) and the deferred Unlock
Delete(g) ==
    /\ call[g].pc = "delete"
    /\ LET k == call[g].key IN
         /\ data' = MapDelete(data, k)
         /\ hist' = [hist EXCEPT ![k].removed = TRUE, ![k].over = FALSE]
    /\ mutex' = Unlock(mutex)
    /\ call' = [call EXCEPT ![g] = Idle]
    /\ ret' = NoRet /\ UNCHANGED <<now, ttl, swpc>>
    /\ UNCHANGED limVars
    /\ out' = NoOut /\ UNCHANGED apiVars

\* ------------------------------------------------------------ cleanup
\* a test for expiry that no entry ever meets
ExpiredNone(m, t) == {}

\* a test for expiry that takes an entry expiring at t for expired
ExpiredUpTo(m, t) == {k \in DOMAIN m : m[k].ExpiresAt <= t}

\* the keys whose entry has expired at clock reading t: those a pass of the
\* cleanup loop deletes and those Stats counts as expired
Expired(m, t) == {k \in DOMAIN m : After(t, m[k].ExpiresAt)}

\* a tick of the one-minute ticker arrives and the pass takes the lock
cleanupLock ==
    /\ swpc = "wait"
    /\ CanLock(mutex)
    /\ mutex' = Lock(mutex, "cleanup")
    /\ swpc' = "locked"
    /\ ret' = NoRet /\ UNCHANGED <<now, ttl, data, call, hist>>
    /\ UNCHANGED limVars
    /\ out' = NoOut /\ UNCHANGED apiVars

\* The same Lock as sync.RWMutex runs it, in two steps.  A tick of the ticker
\* arrives and Lock takes the writer's turn: from here on RLock and Lock of
\* the callers wait, while the readers that are inside finish.
cleanupLockPending ==
    /\ swpc = "wait"
    /\ mutex.writer = NoCaller
    /\ mutex' = Lock(mutex, "cleanup")
    /\ swpc' = "pending"
    /\ ret' = NoRet /\ UNCHANGED <<now, ttl, data, call, hist>>
    /\ UNCHANGED limVars
    /\ out' = NoOut /\ UNCHANGED apiVars

\* the last reader has left: Lock returns
cleanupLockReturn ==
    /\ swpc = "pending"
    /\ mutex.readers = {}
    /\ swpc' = "locked"
    /\ ret' = NoRet /\ UNCHANGED <<now, ttl, data, mutex, call, hist>>
    /\ UNCHANGED limVars
    /\ out' = NoOut /\ UNCHANGED apiVars

\* a pass after which the goroutine leaves its loop
cleanupOnce ==
    /\ swpc = "locked"
    /\ LET gone == Expired(data, now) IN
         /\ data' = [x \in DOMAIN data \ gone |-> data[x]]
         /\ hist' = [k \in Keys |-> IF k \in gone
                                    THEN [hist[k] EXCEPT !.removed = TRUE, !.over = FALSE]
                                    ELSE hist[k]]
         /\ ret' = [NoRet EXCEPT !.op = "cleanup", !.at = now,
                                  !.total = Cardinality(DOMAIN data \ gone),
                                  !.expired = Cardinality(gone)]
    /\ mutex' = Unlock(mutex)
    /\ swpc' = "stopped"
    /\ UNCHANGED <<now, ttl, call>>
    /\ UNCHANGED limVars
    /\ out' = NoOut /\ UNCHANGED apiVars

\* now := time.Now(); the range loop; c.mutex.Unlock()
cleanup ==
    /\ swpc = "locked"
    /\ LET gone == Expired(data, now) IN
         /\ data' = [x \in DOMAIN data \ gone |-> data[x]]
         /\ hist' = [k \in Keys |-> IF k \in gone
                                    THEN [hist[k] EXCEPT !.removed = TRUE, !.over = FALSE]
                                    ELSE hist[k]]
         /\ ret' = [NoRet EXCEPT !.op = "cleanup", !.at = now,
                                  !.total = Cardinality(DOMAIN data \ gone),
                                  !.expired = Cardinality(gone)]
    /\ mutex' = Unlock(mutex)
    /\ swpc' = "wait"
    /\ UNCHANGED <<now, ttl, call>>
    /\ UNCHANGED limVars
    /\ out' = NoOut /\ UNCHANGED apiVars

\* ------------------------------------------------------------ Stats
\* c.mutex.RLock()
StatsRLock(g) ==
    /\ call[g].pc = "idle"
    /\ CanRLock(mutex)
    /\ mutex' = RLock(mutex, g)
    /\ call' = [call EXCEPT ![g] = [Idle EXCEPT !.pc = "stats"]]
    /\ ret' = NoRet /\ UNCHANGED <<now, ttl, data, swpc, hist>>
    /\ UNCHANGED limVars
    /\ out' = NoOut /\ UNCHANGED apiVars

\* total := len(c.data)
StatsLen(g) ==
    /\ call[g].pc = "stats"
    /\ call' = [call EXCEPT ![g].pc = "statsmid", ![g].tmp = Cardinality(DOMAIN data)]
    /\ ret' = NoRet /\ UNCHANGED <<now, ttl, data, mutex, swpc, hist>>
    /\ UNCHANGED limVars
    /\ out' = NoOut /\ UNCHANGED apiVars

\* now := time.Now(); the counting loop; the result map; the deferred RUnlock
Stats(g) ==
    /\ call[g].pc = "statsmid"
    /\ LET total == call[g].tmp
           expired == Cardinality(Expired(data, now))
       IN ret' = [NoRet EXCEPT !.op = "Stats", !.at = now, !.total = total,
                               !.active = total - expired, !.expired = expired]
    /\ mutex' = RUnlock(mutex, g)
    /\ call' = [call EXCEPT ![g] = Idle]
    /\ UNCHANGED <<now, ttl, data, swpc, hist>>
    /\ UNCHANGED limVars
    /\ out' = NoOut /\ UNCHANGED apiVars

\* ------------------------------------------------------------ rate.Limiter
\* golang.org/x/time/rate, as used through NewLimiter, Allow and Tokens.
\* A limiter is [tokens, last, owner]; tokens is in units of 1/TicksPerSec
\* token and owner is the identity GetLimiter created it for.

Min(a, b) == IF a < b THEN a ELSE b

\* rate.NewLimiter(i.limit, i.burst): a full bucket, last is the zero time,
\* from which any clock reading refills to the cap.
NewLimiter(b, ip) == [tokens |-> b * TicksPerSec, last |-> 0, owner |-> ip]

\* Limiter.advance: the token count at clock reading t; a limit that is not
\* positive refills nothing
advance(l, r, b, t) ==
    LET last == Min(l.last, t)
        delta == IF r <= 0 THEN 0 ELSE (t - last) * r
    IN Min(l.tokens + delta, b * TicksPerSec)

\* Limiter.Tokens()
Tokens(l, r, b, t) == advance(l, r, b, t)

\* Limiter.Allow(): whether one token can be taken at clock reading t
AllowOk(l, r, b, t) == 1 <= b /\ advance(l, r, b, t) - TicksPerSec >= 0

\* Limiter.Allow(): the limiter afterwards; a refused call changes nothing
AllowTake(l, r, b, t) ==
    IF AllowOk(l, r, b, t)
    THEN [l EXCEPT !.tokens = advance(l, r, b, t) - TicksPerSec, !.last = t]
    ELSE l

\* int(ipLimiter.Tokens())
Remaining(l, r, b, t) == Tokens(l, r, b, t) \div TicksPerSec

\* ------------------------------------------------------------ IPRateLimiter
\* at, left: the clock reading of its own Allow and what int(Tokens()) of its
\* limiter was right after it
NoReq == [pc |-> "idle", ip |-> "-", lim |-> 0, at |-> 0, left |-> 0]

NoResp == [status |-> 0, ip |-> "-", limit |-> 0, remaining |-> 0, retryAfter |-> 0]

\* win: "unseen" until the identity's first GetLimiter, "open" while its
\* requests have come one after the other and no token can have been
\* refilled, "closed" afterwards; n and ok count the answered and the granted
\* requests of the open window.
\* deniedAt: when the identity's last answered request was refused (NoTime if
\* it was granted).  run: "armed" by a refusal that leaves no request of the
\* identity in the middleware, "open" from the next grant for as long as the
\* requests come one after the other and no token can have been refilled;
\* runOk counts its grants.
\* granted: the grants to the identity since a token can last have been
\* refilled, counted up to one more than the burst.
NoStat == [win |-> "unseen", n |-> 0, ok |-> 0,
           deniedAt |-> NoTime, run |-> "none", runOk |-> 0, granted |-> 0]

\* the limiters something still points to: the garbage collector frees the
\* others
Collect(h, lims, rq) ==
    LET used == {lims[k] : k \in DOMAIN lims} \cup
                {rq[r].lim : r \in {x \in DOMAIN rq : rq[x].pc # "idle"}}
    IN [a \in DOMAIN h \cap used |-> h[a]]

\* the address of a newly allocated limiter
NewAddr(h) == CHOOSE a \in 1..(Cardinality(DOMAIN h) + 1) : a \notin DOMAIN h

\* NewIPRateLimiter(rps, burst)
NewIPRateLimiter(r, b) ==
    /\ rps = r
    /\ burst = b
    /\ limiters = << >>
    /\ mu = "free"

\* a registry keyed by a constant: one limiter for every identity
LimiterKeyShared(ip) == "A"

\* the map key GetLimiter looks the identity up under
LimiterKey(ip) == ip

\* the other requests of identity ip that are inside the middleware
Others(r, ip) == {x \in Reqs \ {r} : req[x].pc # "idle" /\ req[x].ip = ip}

\* the history of an identity when one more request of it arrives, overlapping
\* another one or not
Arrived(s, overlap) ==
    IF overlap
    THEN [s EXCEPT !.win = "closed", !.n = 0, !.ok = 0, !.run = "none", !.runOk = 0]
    ELSE [s EXCEPT !.win = IF @ = "unseen" THEN "open" ELSE @]

\* GetLimiter called with c.ClientIP(): Lock, look up, create if absent,
\* Unlock, return the pointer
GetLimiter(r, ip) ==
    /\ req[r].pc = "idle"
    /\ nreq < MaxRequests
    /\ mu = "free"
    /\ LET key == LimiterKey(ip)
           exists == key \in DOMAIN limiters
           addr == IF exists THEN limiters[key] ELSE NewAddr(heap)
       IN /\ heap' = IF exists THEN heap
                     ELSE MapAssign(heap, addr, NewLimiter(burst, ip))
          /\ limiters' = IF exists THEN limiters ELSE MapAssign(limiters, key, addr)
          /\ req' = [req EXCEPT ![r] = [NoReq EXCEPT !.pc = "got", !.ip = ip, !.lim = addr]]
    /\ nreq' = nreq + 1
    /\ stat' = [stat EXCEPT ![ip] = Arrived(@, Others(r, ip) # {})]
    /\ resp' = NoResp
    /\ UNCHANGED <<now, rps, burst, mu, pending>>
    /\ ret' = NoRet /\ UNCHANGED <<ttl, data, mutex, call, swpc, hist>>
    /\ out' = NoOut /\ UNCHANGED apiVars

\* a burst as a number of requests
Whole(b) == IF b < 0 THEN 0 ELSE b

\* the history of an identity after one more answered request
Answered(s, ok, alone, t) ==
    LET w == s.win = "open" IN
    IF ok
    THEN [s EXCEPT !.n = IF w THEN @ + 1 ELSE @, !.ok = IF w THEN @ + 1 ELSE @,
                   !.deniedAt = NoTime,
                   !.run = IF @ = "armed" THEN "open" ELSE @,
                   !.runOk = IF s.run = "none" THEN @ ELSE @ + 1,
                   !.granted = Min(@ + 1, Whole(burst) + 1)]
    ELSE [s EXCEPT !.n = IF w THEN @ + 1 ELSE @,
                   !.deniedAt = t,
                   !.run = IF alone THEN "armed" ELSE "none", !.runOk = 0]

\* the history of an identity once the clock has moved: with a positive rate
\* tokens may have been refilled
Elapsed(s, r) ==
    IF r <= 0 THEN s
    ELSE [s EXCEPT !.win = IF @ = "open" THEN "closed" ELSE @,
                   !.n = 0, !.ok = 0,
                   !.run = IF @ = "open" THEN "none" ELSE @,
                   !.runOk = 0, !.granted = 0]

\* ipLimiter.Allow() refuses: the headers, the 429 body, c.Abort(), return
RateLimitDeny(r) ==
    /\ req[r].pc = "got"
    /\ ~AllowOk(heap[req[r].lim], rps, burst, now)
    /\ req' = [req EXCEPT ![r] = NoReq]
    /\ heap' = Collect([heap EXCEPT ![req[r].lim] = AllowTake(@, rps, burst, now)],
                       limiters, req')
    /\ resp' = [status |-> 429, ip |-> req[r].ip, limit |-> rps,
                remaining |-> 0, retryAfter |-> 60]
    /\ stat' = [stat EXCEPT ![req[r].ip] = Answered(@, FALSE, Others(r, req[r].ip) = {}, now)]
    /\ UNCHANGED <<now, rps, burst, limiters, mu, pending, nreq>>
    /\ ret' = NoRet /\ UNCHANGED <<ttl, data, mutex, call, swpc, hist>>
    /\ out' = NoOut /\ UNCHANGED apiVars

\* ipLimiter.Allow() grants: a token is taken
RateLimitAllow(r) ==
    /\ req[r].pc = "got"
    /\ AllowOk(heap[req[r].lim], rps, burst, now)
    /\ heap' = [heap EXCEPT ![req[r].lim] = AllowTake(@, rps, burst, now)]
    /\ resp' = NoResp
    /\ req' = [req EXCEPT ![r].pc = "allowed", ![r].at = now,
                           ![r].left = Remaining(heap'[req[r].lim], rps, burst, now)]
    /\ stat' = [stat EXCEPT ![req[r].ip] = Answered(@, TRUE, Others(r, req[r].ip) = {}, now)]
    /\ UNCHANGED <<now, rps, burst, limiters, mu, pending, nreq>>
    /\ ret' = NoRet /\ UNCHANGED <<ttl, data, mutex, call, swpc, hist>>
    /\ out' = NoOut /\ UNCHANGED apiVars

\* remaining := int(ipLimiter.Tokens()); the headers; c.Next()
RateLimitNext(r) ==
    /\ req[r].pc = "allowed"
    /\ resp' = [status |-> 200, ip |-> req[r].ip, limit |-> rps,
                remaining |-> Remaining(heap[req[r].lim], rps, burst, now),
                retryAfter |-> 0]
    /\ req' = [req EXCEPT ![r] = NoReq]
    /\ heap' = Collect(heap, limiters, req')
    /\ UNCHANGED <<now, rps, burst, limiters, mu, pending, nreq, stat>>
    /\ ret' = NoRet /\ UNCHANGED <<ttl, data, mutex, call, swpc, hist>>
    /\ out' = NoOut /\ UNCHANGED apiVars

\* ------------------------------------------------------------ CleanupOldEntries
\* a tick of the five-minute ticker: i.mu.Lock(), the range loop starts
CleanupLock ==
    /\ mu = "free"
    /\ mu' = "cleanup"
    /\ pending' = DOMAIN limiters
    /\ resp' = NoResp
    /\ UNCHANGED <<now, rps, burst, limiters, heap, req, nreq, stat>>
    /\ ret' = NoRet /\ UNCHANGED <<ttl, data, mutex, call, swpc, hist>>
    /\ out' = NoOut /\ UNCHANGED apiVars

\* a loop body that deletes every limiter it visits
IsOldAlways(l, r, b, t) == TRUE

\* whether the loop body deletes limiter l
IsOld(l, r, b, t) == Tokens(l, r, b, t) = b * TicksPerSec

\* one iteration of the range loop, in the order the map yields its keys
CleanupVisit(key) ==
    /\ mu = "cleanup"
    /\ key \in pending
    /\ limiters' = IF IsOld(heap[limiters[key]], rps, burst, now)
                   THEN MapDelete(limiters, key)
                   ELSE limiters
    /\ pending' = pending \ {key}
    /\ heap' = Collect(heap, limiters', req)
    /\ resp' = NoResp
    /\ UNCHANGED <<now, rps, burst, mu, req, nreq, stat>>
    /\ ret' = NoRet /\ UNCHANGED <<ttl, data, mutex, call, swpc, hist>>
    /\ out' = NoOut /\ UNCHANGED apiVars

\* the loop is over: the deferred i.mu.Unlock()
CleanupUnlock ==
    /\ mu = "cleanup"
    /\ pending = {}
    /\ mu' = "free"
    /\ resp' = NoResp
    /\ UNCHANGED <<now, rps, burst, limiters, heap, pending, req, nreq, stat>>
    /\ ret' = NoRet /\ UNCHANGED <<ttl, data, mutex, call, swpc, hist>>
    /\ out' = NoOut /\ UNCHANGED apiVars

\* ------------------------------------------------------------ SetupRoutes
Tiers == {"general", "scrape"}

DebugRoutes == {"/debug/:username", "/debug/:username/shelf/:shelf"}

ApiRoutes == {"/api/v1/reading-stats/:username",
              "/api/v1/reading-stats/:username/favorites",
              "/api/v1/reading-stats/:username/study",
              "/api/v1/portfolio/:username"}

Routes == {"/health"} \cup DebugRoutes \cup ApiRoutes

Users == {"u1"}

Clients == {"A"}

Conns == {"q1", "q2"}

\* what scraper.GetReadingStats, DebugHTML and DebugShelf can return
ScrapeResults == Values \cup {"error"}

\* the middlewares in front of the handler of a route, outermost first: the
\* v1 group carries RateLimitMiddleware, its scrape group adds
\* ScrapeRateLimitMiddleware, /health and /debug carry none
Chain(route) == IF route \in ApiRoutes THEN <<"general", "scrape">> ELSE << >>

\* cacheKey := "<kind>:" + username
CacheKey(route, user) ==
    (CASE route = "/api/v1/reading-stats/:username" -> "stats:"
       [] route = "/api/v1/reading-stats/:username/favorites" -> "favorites:"
       [] route = "/api/v1/reading-stats/:username/study" -> "study:"
       [] OTHER -> "portfolio:") \o user

CacheKeys == {CacheKey(r, u) : r \in ApiRoutes, u \in Users}

IdleConn == [pc |-> "idle", route |-> "-", ip |-> "-", user |-> "-",
             i |-> 0, lim |-> 0, adm |-> {}, val |-> "-"]

NoServed == [set |-> FALSE, val |-> "-", at |-> 0]

\* every middleware using the registry of the general tier
RegistryShared(t) == "general"

\* the registry a middleware works on: each constructor call makes its own
Registry(t) == t

\* the tier whose middleware connection record c is in
TierOf(c) == Chain(c.route)[c.i]

\* where a request goes when element i of its chain is done: the next
\* middleware, or the handler
Enter(c, i) ==
    IF i <= Len(Chain(c.route))
    THEN [c EXCEPT !.pc = "mw", !.i = i, !.lim = 0]
    ELSE [c EXCEPT !.pc = "handler", !.i = 0, !.lim = 0]

\* a middleware that refuses and lets the chain go on
NotAborted(c) == Enter(c, c.i + 1)

\* c.Abort(); return: nothing further down the chain runs, the request is over
Aborted(c) == IdleConn

\* the limiters of registry R something still points to
CollectTier(h, lims, cs, R) ==
    LET held == {q \in DOMAIN cs : cs[q].pc = "got" /\ Registry(TierOf(cs[q])) = R}
        used == {lims[k] : k \in DOMAIN lims} \cup {cs[q].lim : q \in held}
    IN [a \in DOMAIN h \cap used |-> h[a]]

\* the router hands a request to a connection goroutine
ServeHTTP(q, route, ip, user) ==
    /\ conn[q].pc = "idle"
    /\ nconn < MaxServed
    /\ conn' = [conn EXCEPT ![q] =
                  Enter([IdleConn EXCEPT !.route = route, !.ip = ip, !.user = user], 1)]
    /\ nconn' = nconn + 1
    /\ out' = NoOut
    /\ UNCHANGED <<quota, registry, buckets, served>>
    /\ ret' = NoRet /\ UNCHANGED <<now, ttl, data, mutex, call, swpc, hist, limVars>>

\* ip := c.ClientIP(); ipLimiter := limiter.GetLimiter(ip)
MiddlewareGetLimiter(q) ==
    /\ conn[q].pc = "mw"
    /\ LET t == TierOf(conn[q])
           R == Registry(t)
           key == LimiterKey(conn[q].ip)
           exists == key \in DOMAIN registry[R]
           addr == IF exists THEN registry[R][key] ELSE NewAddr(buckets[R])
       IN /\ buckets' = IF exists THEN buckets
                        ELSE [buckets EXCEPT ![R] =
                                MapAssign(@, addr, NewLimiter(quota[t], conn[q].ip))]
          /\ registry' = IF exists THEN registry
                         ELSE [registry EXCEPT ![R] = MapAssign(@, key, addr)]
          /\ conn' = [conn EXCEPT ![q].pc = "got", ![q].lim = addr]
    /\ out' = NoOut
    /\ UNCHANGED <<quota, nconn, served>>
    /\ ret' = NoRet /\ UNCHANGED <<now, ttl, data, mutex, call, swpc, hist, limVars>>

\* !ipLimiter.Allow(): the three headers, the 429 body, c.Abort(), return
MiddlewareDeny(q) ==
    /\ conn[q].pc = "got"
    /\ LET t == TierOf(conn[q])
           R == Registry(t)
       IN /\ ~AllowOk(buckets[R][conn[q].lim], quota[t], quota[t], now)
          /\ conn' = [conn EXCEPT ![q] = Aborted(conn[q])]
          /\ buckets' = [buckets EXCEPT ![R] =
                           CollectTier([@ EXCEPT ![conn[q].lim] =
                                           AllowTake(@, quota[t], quota[t], now)],
                                       registry[R], conn', R)]
          /\ out' = [NoOut EXCEPT !.status = 429, !.by = t, !.route = conn[q].route,
                                  !.limit = quota[t], !.remaining = 0,
                                  !.retryAfter = 60]
    /\ UNCHANGED <<quota, registry, nconn, served>>
    /\ ret' = NoRet /\ UNCHANGED <<now, ttl, data, mutex, call, swpc, hist, limVars>>

\* ipLimiter.Allow() grants; the two headers; c.Next()
MiddlewareAllow(q) ==
    /\ conn[q].pc = "got"
    /\ LET t == TierOf(conn[q])
           R == Registry(t)
       IN /\ AllowOk(buckets[R][conn[q].lim], quota[t], quota[t], now)
          /\ conn' = [conn EXCEPT ![q] =
                        Enter([conn[q] EXCEPT !.adm = @ \cup {t}], conn[q].i + 1)]
          /\ buckets' = [buckets EXCEPT ![R] =
                           CollectTier([@ EXCEPT ![conn[q].lim] =
                                           AllowTake(@, quota[t], quota[t], now)],
                                       registry[R], conn', R)]
    /\ out' = NoOut
    /\ UNCHANGED <<quota, registry, nconn, served>>
    /\ ret' = NoRet /\ UNCHANGED <<now, ttl, data, mutex, call, swpc, hist, limVars>>

\* a tick of the five-minute ticker of tier t: limiter.CleanupOldEntries()
TierCleanup(t) ==
    /\ LET R == Registry(t)
           old == {k \in DOMAIN registry[R] :
                     IsOld(buckets[R][registry[R][k]], quota[t], quota[t], now)}
       IN /\ old # {}
          /\ registry' = [registry EXCEPT ![R] = [k \in DOMAIN @ \ old |-> @[k]]]
          /\ buckets' = [buckets EXCEPT ![R] = CollectTier(@, registry'[R], conn, R)]
    /\ out' = NoOut
    /\ UNCHANGED <<quota, conn, nconn, served>>
    /\ ret' = NoRet /\ UNCHANGED <<now, ttl, data, mutex, call, swpc, hist, limVars>>

\* ------------------------------------------------------------ handlers
\* healthCheck: h.cache.Stats() and the 200 response
healthCheck(q) ==
    /\ conn[q].pc = "handler"
    /\ conn[q].route = "/health"
    /\ CanRLock(mutex)
    /\ conn' = [conn EXCEPT ![q] = IdleConn]
    /\ out' = [NoOut EXCEPT !.status = 200, !.route = conn[q].route, !.body = "healthy"]
    /\ UNCHANGED <<quota, registry, buckets, nconn, served>>
    /\ ret' = NoRet /\ UNCHANGED <<now, ttl, data, mutex, call, swpc, hist, limVars>>

\* debugHTML, debugShelf: h.scraper.DebugHTML / DebugShelf is called
HandlerDebug(q) ==
    /\ conn[q].pc = "handler"
    /\ conn[q].route \in DebugRoutes
    /\ conn' = [conn EXCEPT ![q].pc = "scraping"]
    /\ out' = NoOut
    /\ UNCHANGED <<quota, registry, buckets, nconn, served>>
    /\ ret' = NoRet /\ UNCHANGED <<now, ttl, data, mutex, call, swpc, hist, limVars>>

\* getReadingStats, getFavorites, getStudyBooks, getPortfolioData:
\* h.cache.Get(cacheKey) finds the entry; X-Cache: HIT and the 200 response
HandlerHit(q) ==
    /\ conn[q].pc = "handler"
    /\ conn[q].route \in ApiRoutes
    /\ CanRLock(mutex)
    /\ LET r == Get(data, CacheKey(conn[q].route, conn[q].user), now) IN
         /\ r.found
         /\ out' = [NoOut EXCEPT !.status = 200, !.route = conn[q].route,
                                 !.cache = "HIT", !.body = r.val]
    /\ conn' = [conn EXCEPT ![q] = IdleConn]
    /\ UNCHANGED <<quota, registry, buckets, nconn, served>>
    /\ ret' = NoRet /\ UNCHANGED <<now, ttl, data, mutex, call, swpc, hist, limVars>>

\* a handler that calls the scraper from inside the read lock of its Get
HandlerMissHoldingLock(q) ==
    /\ conn[q].pc = "handler"
    /\ conn[q].route \in ApiRoutes
    /\ CanRLock(mutex)
    /\ ~Get(data, CacheKey(conn[q].route, conn[q].user), now).found
    /\ mutex' = RLock(mutex, q)
    /\ conn' = [conn EXCEPT ![q].pc = "scraping"]
    /\ out' = NoOut
    /\ UNCHANGED <<quota, registry, buckets, nconn, served>>
    /\ ret' = NoRet /\ UNCHANGED <<now, ttl, data, call, swpc, hist, limVars>>

\* h.cache.Get(cacheKey) misses; h.scraper.GetReadingStats(username) is called
HandlerMiss(q) ==
    /\ conn[q].pc = "handler"
    /\ conn[q].route \in ApiRoutes
    /\ CanRLock(mutex)
    /\ ~Get(data, CacheKey(conn[q].route, conn[q].user), now).found
    /\ conn' = [conn EXCEPT ![q].pc = "scraping"]
    /\ out' = NoOut
    /\ UNCHANGED <<quota, registry, buckets, nconn, served>>
    /\ ret' = NoRet /\ UNCHANGED <<now, ttl, data, mutex, call, swpc, hist, limVars>>

\* a handler that answers 500 on an error and caches what it got all the same
HandlerScrapedStoring(q, res) ==
    /\ conn[q].pc = "scraping"
    /\ IF conn[q].route \in DebugRoutes
       THEN /\ conn' = [conn EXCEPT ![q] = IdleConn]
            /\ out' = [NoOut EXCEPT !.status = IF res = "error" THEN 500 ELSE 200,
                                    !.route = conn[q].route]
       ELSE /\ conn' = [conn EXCEPT ![q].pc = "store", ![q].val = res]
            /\ out' = IF res = "error"
                      THEN [NoOut EXCEPT !.status = 500, !.route = conn[q].route]
                      ELSE NoOut
    /\ UNCHANGED <<quota, registry, buckets, nconn, served>>
    /\ ret' = NoRet /\ UNCHANGED <<now, ttl, data, mutex, call, swpc, hist, limVars>>

\* the scraper returns: an error gives the 500 response; a debug handler
\* answers 200; the other handlers go on to cache the result
HandlerScraped(q, res) ==
    /\ conn[q].pc = "scraping"
    /\ IF res = "error"
       THEN /\ conn' = [conn EXCEPT ![q] = IdleConn]
            /\ out' = [NoOut EXCEPT !.status = 500, !.route = conn[q].route]
       ELSE IF conn[q].route \in DebugRoutes
       THEN /\ conn' = [conn EXCEPT ![q] = IdleConn]
            /\ out' = [NoOut EXCEPT !.status = 200, !.route = conn[q].route,
                                    !.body = "debug"]
       ELSE /\ conn' = [conn EXCEPT ![q].pc = "store", ![q].val = res]
            /\ out' = NoOut
    /\ UNCHANGED <<quota, registry, buckets, nconn, served>>
    /\ ret' = NoRet /\ UNCHANGED <<now, ttl, data, mutex, call, swpc, hist, limVars>>

\* h.cache.Set(cacheKey, result); X-Cache: MISS and the 200 response
HandlerStore(q) ==
    /\ conn[q].pc = "store"
    /\ CanLock(mutex)
    /\ LET k == CacheKey(conn[q].route, conn[q].user) IN
         /\ data' = MapAssign(data, k, CacheItem(conn[q].val, SetExpiresAt(now, ttl)))
         /\ served' = [served EXCEPT ![k] = [set |-> TRUE, val |-> conn[q].val, at |-> now]]
    /\ out' = [NoOut EXCEPT !.status = 200, !.route = conn[q].route,
                            !.cache = "MISS", !.body = conn[q].val]
    /\ conn' = [conn EXCEPT ![q] = IdleConn]
    /\ UNCHANGED <<quota, registry, buckets, nconn>>
    /\ ret' = NoRet /\ UNCHANGED <<now, ttl, mutex, call, swpc, hist, limVars>>

\* ------------------------------------------------------------ the clock
Tick ==
    /\ now < MaxTime
    /\ now' = now + 1
    /\ ret' = NoRet /\ UNCHANGED <<ttl, data, mutex, call, swpc, hist>>
    /\ out' = NoOut /\ UNCHANGED apiVars
    /\ resp' = NoResp
    /\ stat' = [ip \in IPs |-> Elapsed(stat[ip], rps)]
    /\ UNCHANGED <<rps, burst, limiters, heap, mu, pending, req, nreq>>

\* ------------------------------------------------------------ initial states
LimiterIdle ==
    /\ heap = << >>
    /\ pending = {}
    /\ req = [r \in Reqs |-> NoReq]
    /\ nreq = 0
    /\ resp = NoResp
    /\ stat = [ip \in IPs |-> NoStat]

CacheIdle ==
    /\ call = [g \in Callers |-> Idle]
    /\ ret = NoRet
    /\ hist = [k \in Keys |-> NoHist]

ApiIdle ==
    /\ registry = [t \in Tiers |-> << >>]
    /\ buckets = [t \in Tiers |-> << >>]
    /\ conn = [q \in Conns |-> IdleConn]
    /\ nconn = 0
    /\ served = [k \in CacheKeys |-> NoServed]
    /\ out = NoOut

\* SetupRoutes: RateLimitMiddleware(n, n) on the v1 group and
\* ScrapeRateLimitMiddleware(m, m) on its scrape group
SetupRoutes(n, m) ==
    /\ quota = [t \in Tiers |-> IF t = "general" THEN n ELSE m]
    /\ ApiIdle

\* the cache under every TTL, next to one limiter nobody calls
CacheInit ==
    /\ now = 0
    /\ \E d \in TTLs : NewMemoryCache(d)
    /\ CacheIdle
    /\ NewIPRateLimiter(MaxLimit, MaxLimit)
    /\ LimiterIdle
    /\ SetupRoutes(MaxLimit, 1)

\* one limiter under every limit, next to a cache nobody calls
LimiterInit ==
    /\ now = 0
    /\ \E n \in Limits : NewIPRateLimiter(n, n)
    /\ LimiterIdle
    /\ NewMemoryCache(MaxTTL)
    /\ CacheIdle
    /\ SetupRoutes(MaxLimit, 1)

\* the router in front of a cache of the longest TTL, with the larger limit on
\* the one tier or the other
ApiInit ==
    /\ now = 0
    /\ NewMemoryCache(MaxTTL)
    /\ CacheIdle
    /\ NewIPRateLimiter(MaxLimit, MaxLimit)
    /\ LimiterIdle
    /\ \E n \in {1, MaxLimit} : SetupRoutes(n, MaxLimit + 1 - n)

\* ------------------------------------------------------------ specifications
CacheNext ==
    \/ \E g \in Callers, k \in Keys : GetRLock(g, k)
    \/ \E g \in Callers : GetReturn(g)
    \/ \E g \in Callers, k \in Keys, v \in Values : SetLock(g, k, v)
    \/ \E g \in Callers : SetStoreData(g)
    \/ \E g \in Callers : SetStoreExpiresAt(g)
    \/ \E g \in Callers, k \in Keys : DeleteLock(g, k)
    \/ \E g \in Callers : Delete(g)
    \/ cleanupLock
    \/ cleanup
    \/ \E g \in Callers : StatsRLock(g)
    \/ \E g \in Callers : StatsLen(g)
    \/ \E g \in Callers : Stats(g)
    \/ Tick

CacheSpec == CacheInit /\ [][CacheNext]_vars

\* The cache with the Lock of the cleanup goroutine in two steps
CacheFairNext ==
    \/ \E g \in Callers, k \in Keys : GetRLock(g, k)
    \/ \E g \in Callers : GetReturn(g)
    \/ \E g \in Callers, k \in Keys, v \in Values : SetLock(g, k, v)
    \/ \E g \in Callers : SetStoreData(g)
    \/ \E g \in Callers : SetStoreExpiresAt(g)
    \/ \E g \in Callers, k \in Keys : DeleteLock(g, k)
    \/ \E g \in Callers : Delete(g)
    \/ cleanupLockPending
    \/ cleanupLockReturn
    \/ cleanup
    \/ \E g \in Callers : StatsRLock(g)
    \/ \E g \in Callers : StatsLen(g)
    \/ \E g \in Callers : Stats(g)
    \/ Tick

\* Its goroutines scheduled: a call that holds the mutex runs on to its
\* deferred unlock; the ticker of the cleanup goroutine keeps firing and its
\* Lock gets the writer's turn however often Set and Delete take the mutex
\* (sync.Mutex hands a starving waiter the mutex); once the readers have left,
\* Lock returns and the pass runs to its Unlock.  No caller is obliged to
\* start a call and the clock is not obliged to move.
CacheFairness ==
    /\ \A g \in Callers :
           WF_vars(\/ GetReturn(g)
                   \/ SetStoreData(g) \/ SetStoreExpiresAt(g)
                   \/ Delete(g)
                   \/ StatsLen(g) \/ Stats(g))
    /\ SF_vars(cleanupLockPending)
    /\ WF_vars(cleanupLockReturn)
    /\ WF_vars(cleanup)

CacheFairSpec == CacheInit /\ [][CacheFairNext]_vars /\ CacheFairness

LimiterNext ==
    \/ \E r \in Reqs, ip \in IPs : GetLimiter(r, ip)
    \/ \E r \in Reqs : RateLimitDeny(r)
    \/ \E r \in Reqs : RateLimitAllow(r)
    \/ \E r \in Reqs : RateLimitNext(r)
    \/ CleanupLock
    \/ \E ip \in IPs : CleanupVisit(ip)
    \/ CleanupUnlock
    \/ Tick

LimiterSpec == LimiterInit /\ [][LimiterNext]_vars

ApiNext ==
    \/ \E q \in Conns, route \in Routes, ip \in Clients, u \in Users :
          ServeHTTP(q, route, ip, u)
    \/ \E q \in Conns : MiddlewareGetLimiter(q)
    \/ \E q \in Conns : MiddlewareDeny(q)
    \/ \E q \in Conns : MiddlewareAllow(q)
    \/ \E t \in Tiers : TierCleanup(t)
    \/ \E q \in Conns : healthCheck(q)
    \/ \E q \in Conns : HandlerDebug(q)
    \/ \E q \in Conns : HandlerHit(q)
    \/ \E q \in Conns : HandlerMiss(q)
    \/ \E q \in Conns, res \in ScrapeResults : HandlerScraped(q, res)
    \/ \E q \in Conns : HandlerStore(q)
    \/ cleanupLock
    \/ cleanup
    \/ Tick

ApiSpec == ApiInit /\ [][ApiNext]_vars

\* The cache and one limiter side by side, each used by one goroutine: a
\* caller that Sets and Deletes, every key with a value of its own, and a
\* request goroutine that serves one request after the other for either
\* identity.
FrameValue(k) == IF k = "k1" THEN "v1" ELSE "v2"

FrameInit ==
    /\ now = 0
    /\ NewMemoryCache(MaxTTL)
    /\ CacheIdle
    /\ NewIPRateLimiter(MaxLimit, MaxLimit)
    /\ LimiterIdle
    /\ SetupRoutes(MaxLimit, 1)

FrameNext ==
    \/ \E k \in Keys : SetLock("c1", k, FrameValue(k))
    \/ SetStoreData("c1")
    \/ SetStoreExpiresAt("c1")
    \/ \E k \in Keys : DeleteLock("c1", k)
    \/ Delete("c1")
    \/ \E ip \in IPs : GetLimiter("r1", ip)
    \/ RateLimitDeny("r1")
    \/ RateLimitAllow("r1")
    \/ RateLimitNext("r1")
    \/ Tick

FrameSpec == FrameInit /\ [][FrameNext]_vars

\* ------------------------------------------------------------ cache claims
\* the key of the Get that returns in this step
GetKey(g) == call[g].key

\* C1: a Get(k) that runs right after a completed Set(k, v) -- k was not
\* removed since and the clock has not moved -- returns (v, true).
C1_GetAfterSet ==
    [][\A g \in Callers : GetReturn(g) =>
          LET h == hist[GetKey(g)] IN
          (h.set /\ ~h.removed /\ h.at = now) => (ret'.found /\ ret'.val = h.val)]_vars

\* C2 as stated: Get returns (value, true) exactly when the entry is present
\* and now < expiresAt, so a Get at now = expiresAt returns found = false.
C2_VisibleBeforeExpiry ==
    [][\A g \in Callers : GetReturn(g) =>
          LET k == GetKey(g) IN
          /\ ret'.found <=> (k \in DOMAIN data /\ now < data[k].ExpiresAt)
          /\ ret'.found => ret'.val = data[k].Data]_vars

\* C2 amended: Get returns (value, true) exactly when the entry is present
\* and now <= expiresAt; at now = expiresAt the entry is still returned.
C2_VisibleUntilExpiry ==
    [][\A g \in Callers : GetReturn(g) =>
          LET k == GetKey(g) IN
          /\ ret'.found <=> (k \in DOMAIN data /\ now <= data[k].ExpiresAt)
          /\ ret'.found => ret'.val = data[k].Data]_vars

\* a Get at the very instant its entry expires has returned the value
C2_Witness == ret.op = "Get" /\ ret.found /\ ret.at = ret.exp

\* C3: once the last Set(k, _) lies more than TTL in the past, every Get(k)
\* returns not-found, swept or not.
C3_GoneAfterTTL ==
    [][\A g \in Callers : GetReturn(g) =>
          LET h == hist[GetKey(g)] IN
          (h.set /\ now > h.at + ttl) => ~ret'.found]_vars

\* a Get has missed an entry that outlived a positive TTL and that no sweep
\* or Delete has removed
C3_Witness ==
    /\ ret.op = "Get" /\ ~ret.found
    /\ ttl >= 1
    /\ ret.key \in DOMAIN data
    /\ hist[ret.key].set /\ ~hist[ret.key].removed
    /\ ret.at > hist[ret.key].at + ttl

\* C4: a Get of a key no Set ever wrote returns not-found, whatever was done
\* to the other keys.
C4_NeverSet ==
    [][\A g \in Callers : GetReturn(g) =>
          (~hist[GetKey(g)].set => ~ret'.found)]_vars

\* a Get has missed a key never Set while another key holds a live entry
C4_Witness ==
    /\ ret.op = "Get" /\ ~ret.found
    /\ ~hist[ret.key].set
    /\ \E k \in DOMAIN data : k # ret.key /\ ~After(now, data[k].ExpiresAt)

\* C5: every result of Stats has active + expired = total with neither
\* negative.
C5_StatsAddUp ==
    ret.op = "Stats" =>
        /\ ret.active + ret.expired = ret.total
        /\ ret.active >= 0
        /\ ret.expired >= 0

\* a Stats has counted an expired and an active entry side by side
C5_Witness == ret.op = "Stats" /\ ret.expired >= 1 /\ ret.active >= 1

\* C6: a Get that finds k returns the value, with the expiry, that the last
\* Set(k, _) to complete before it wrote: a value some completed Set wrote,
\* never one paired with the expiry of another Set.
C6_ValueOfCompletedSet ==
    (ret.op = "Get" /\ ret.found) =>
        LET h == hist[ret.key] IN
        /\ h.set
        /\ ret.val = h.val
        /\ ret.exp = h.at + ttl

\* a Get has found a key, some time after its Set, while the other caller is
\* inside a call
C6_Witness ==
    /\ ret.op = "Get" /\ ret.found
    /\ ret.at > hist[ret.key].at
    /\ \E g \in Callers : call[g].pc # "idle"

\* C19: a Set(k, v) that reads the clock at t and finds k present replaces the
\* entry wholesale by (v, t + ttl) and touches no other key; from then on a
\* Get(k) finds v at every instant up to t + ttl, whatever the expiry of the
\* entry it replaced, until the entry is removed or Set again.
C19_SetOverwrites ==
    [][\A g \in Callers :
          /\ SetStoreData(g) => call'[g].tmp = now + ttl
          /\ SetStoreExpiresAt(g) =>
                LET k == call[g].key IN
                (hist[k].set /\ ~hist[k].removed) =>
                    /\ data'[k] = CacheItem(call[g].val, call[g].tmp)
                    /\ DOMAIN data' = DOMAIN data
                    /\ \A x \in DOMAIN data \ {k} : data'[x] = data[x]
          /\ GetReturn(g) =>
                LET h == hist[GetKey(g)] IN
                (h.set /\ h.over /\ ~h.removed /\ now <= h.at + ttl) =>
                    (ret'.found /\ ret'.val = h.val /\ ret'.exp = h.at + ttl)]_vars

\* a Get has found the value of a Set that, after the first instant, replaced
\* an entry that was present
C19_Witness ==
    /\ ret.op = "Get" /\ ret.found
    /\ hist[ret.key].over
    /\ hist[ret.key].at >= 1

\* C20: Delete(k) removes k's entry and nothing else, and changes nothing
\* when k is absent; the number of entries drops by one exactly when k was
\* present; deleting again changes nothing; and a Get(k) misses from the
\* removal until the next Set(k, _) completes.
C20_Delete ==
    [][\A g \in Callers :
          /\ Delete(g) =>
                LET k == call[g].key IN
                /\ DOMAIN data' = DOMAIN data \ {k}
                /\ \A x \in DOMAIN data' : data'[x] = data[x]
                /\ k \notin DOMAIN data => data' = data
                /\ Cardinality(DOMAIN data') =
                      Cardinality(DOMAIN data) - (IF k \in DOMAIN data THEN 1 ELSE 0)
                /\ MapDelete(data', k) = data'
          /\ GetReturn(g) => (hist[GetKey(g)].removed => ~ret'.found)]_vars

\* a Get has missed a key whose entry, not yet expired, a Delete removed
C20_Witness ==
    /\ ret.op = "Get" /\ ~ret.found
    /\ hist[ret.key].set /\ hist[ret.key].removed
    /\ ret.at <= hist[ret.key].at + ttl

\* ------------------------------------------------------------ limiter claims
\* C7: of the requests a new identity makes one after the other before any
\* token can have been refilled, the first `burst` are granted and every later
\* one is refused.
C7_BurstThenDeny ==
    \A ip \in IPs :
        stat[ip].win = "open" => stat[ip].ok = Min(stat[ip].n, Whole(burst))

\* the identity request r is made for, in a step of the middleware
StepOf(r, ip) ==
    \/ GetLimiter(r, ip)
    \/ req[r].ip = ip /\ (RateLimitDeny(r) \/ RateLimitAllow(r) \/ RateLimitNext(r))

\* the registry entry of identity b and every limiter created for b are
\* what they were
Untouched(b) ==
    /\ (b \in DOMAIN limiters) <=> (b \in DOMAIN limiters')
    /\ b \in DOMAIN limiters => limiters'[b] = limiters[b]
    /\ \A a \in DOMAIN heap :
          heap[a].owner = b => (a \in DOMAIN heap' /\ heap'[a] = heap[a])

\* C8: a request of identity A works on a limiter created for A and leaves
\* the registry entry and the limiters of every other identity as they were.
C8_NoInterference ==
    [][\A r \in Reqs, ip \in IPs : StepOf(r, ip) =>
          /\ req'[r].pc = "idle" \/ heap'[req'[r].lim].owner = ip
          /\ \A b \in IPs \ {ip} : Untouched(b)]_vars

\* B is granted its first request, with a full bucket but for that one
\* token, at the instant A is being refused
C8_Witness ==
    /\ resp.status = 200 /\ resp.ip = "B"
    /\ burst >= 1 /\ resp.remaining = burst - 1
    /\ stat["A"].deniedAt = now
    /\ stat["B"].n = 1

\* C9: a request that comes a full refill interval after the identity's last
\* request was refused is granted; and the grants that follow a refusal, for
\* requests made one after the other with no refill between them, number at
\* most `burst`.
C9_RefillAfterExhaustion ==
    [][/\ \A r \in Reqs :
             (/\ RateLimitDeny(r) \/ RateLimitAllow(r)
              /\ rps > 0
              /\ stat[req[r].ip].deniedAt # NoTime
              /\ (now - stat[req[r].ip].deniedAt) * rps >= TicksPerSec)
             => RateLimitAllow(r)
       /\ \A ip \in IPs : stat'[ip].run = "open" => stat'[ip].runOk <= burst]_vars

\* C10: two requests of one identity that are inside the middleware at the
\* same time hold the same limiter.
C10_OneBucketPerIdentity ==
    \A r1, r2 \in Reqs :
        (req[r1].pc # "idle" /\ req[r2].pc # "idle" /\ req[r1].ip = req[r2].ip)
            => req[r1].lim = req[r2].lim

\* C11: consuming is atomic per identity.  A granted Allow takes exactly one
\* token from the limiter it is called on and a refused one changes no
\* limiter; and when a request is granted while another request of the same
\* identity is inside the middleware, the bucket it took the token from
\* accounts for every grant the identity got since a token can last have
\* been refilled: no token is spent twice.
C11_AtomicConsume ==
    [][\A r \in Reqs :
          /\ RateLimitAllow(r) =>
                LET a == req[r].lim
                    ip == req[r].ip
                IN /\ Tokens(heap'[a], rps, burst, now) =
                        Tokens(heap[a], rps, burst, now) - TicksPerSec
                   /\ Others(r, ip) # {} =>
                        Tokens(heap'[a], rps, burst, now) <=
                            (Whole(burst) - stat'[ip].granted) * TicksPerSec
          /\ RateLimitDeny(r) =>
                \A a \in DOMAIN heap' : heap'[a] = heap[a]]_vars

\* C12: every limiter holds between 0 and `burst` tokens, as stored and as
\* Tokens() reports them.
C12_TokensInRange ==
    \A a \in DOMAIN heap :
        /\ 0 <= heap[a].tokens /\ heap[a].tokens <= burst * TicksPerSec
        /\ 0 <= Tokens(heap[a], rps, burst, now)
        /\ Tokens(heap[a], rps, burst, now) <= burst * TicksPerSec

\* C16: the configured limit is a number of requests per minute: an identity
\* whose request was refused gains limit/60 token per second, so it is
\* granted again only once the time since the refusal, times limit/60,
\* makes up one token.
C16_PerMinuteCeiling ==
    [][\A r \in Reqs :
          (RateLimitAllow(r) /\ stat[req[r].ip].deniedAt # NoTime) =>
              (now - stat[req[r].ip].deniedAt) * rps >= 60 * TicksPerSec]_vars

\* C18: whatever CleanupOldEntries does in between, an identity is granted at
\* most `burst` requests in a window in which no token can have been
\* refilled.
C18_EvictionGrantsNothing ==
    \A ip \in IPs : stat[ip].granted <= Whole(burst)

\* ------------------------------------------------------------ API claims
\* C13: a request a rate-limit middleware refuses is answered 429 with
\* X-RateLimit-Limit = the configured limit, X-RateLimit-Remaining = 0 and
\* Retry-After = 60, and the chain is aborted: the request is over, it starts
\* no scraper call and the cache is as it was.
C13_DenialAborts ==
    [][\A q \in Conns : MiddlewareDeny(q) =>
          /\ out'.status = 429
          /\ out'.limit = quota[TierOf(conn[q])]
          /\ out'.remaining = 0
          /\ out'.retryAfter = 60
          /\ conn'[q].pc = "idle"
          /\ data' = data]_vars

\* the scrape tier has refused a request the general tier had let through
C13_Witness ==
    /\ out.status = 429 /\ out.by = "scrape"
    /\ out.limit = quota["scrape"] /\ out.retryAfter = 60

\* C14: on every route, a request calls the scraper (DebugHTML, DebugShelf,
\* GetReadingStats) only after the rate-limit middlewares have granted it.
C14_AdmissionBeforeScraper ==
    [][\A q \in Conns :
          (HandlerDebug(q) \/ HandlerMiss(q)) => conn[q].adm = Tiers]_vars

\* no other request for the cache key of request q is being served
Alone(q) ==
    \A x \in Conns \ {q} :
        \/ conn[x].pc = "idle"
        \/ conn[x].route \notin ApiRoutes
        \/ CacheKey(conn[x].route, conn[x].user) # CacheKey(conn[q].route, conn[q].user)

\* C15: for requests of one endpoint and username that do not overlap, a
\* request that misses calls the scraper and stores the result, with
\* expiry now + ttl, in the step that sends it; a request that comes before
\* that entry expires is a HIT carrying the same body and calls no scraper;
\* and nothing is a HIT before a MISS has stored.
C15_OncePerWindow ==
    [][\A q \in Conns :
          LET k == CacheKey(conn[q].route, conn[q].user) IN
          /\ HandlerStore(q) =>
                /\ data'[k] = CacheItem(conn[q].val, now + ttl)
                /\ out'.cache = "MISS" /\ out'.body = conn[q].val
          /\ HandlerMiss(q) =>
                ~(Alone(q) /\ served[k].set /\ now < served[k].at + ttl)
          /\ HandlerHit(q) =>
                /\ served[k].set
                /\ conn'[q].pc = "idle"
                /\ Alone(q) => (out'.cache = "HIT" /\ out'.body = served[k].val)]_vars

\* the second of two requests that did not overlap was a HIT with the body
\* the first, a MISS, had stored
C15_Witness ==
    /\ out.cache = "HIT"
    /\ nconn = 2
    /\ \A q \in Conns : conn[q].pc = "idle"
    /\ \E k \in CacheKeys : served[k].set /\ out.body = served[k].val

\* a step of the middleware of tier t, or of its cleanup goroutine
TierStep(q, t) ==
    \/ /\ conn[q].pc \in {"mw", "got"}
       /\ TierOf(conn[q]) = t
       /\ MiddlewareGetLimiter(q) \/ MiddlewareDeny(q) \/ MiddlewareAllow(q)
    \/ TierCleanup(t)

\* C17: creating, consuming from, exhausting or cleaning up buckets in one
\* tier leaves the registry and every bucket of the other tier as they were.
C17_TiersDisjoint ==
    [][\A q \in Conns, t \in Tiers : TierStep(q, t) =>
          \A u \in Tiers \ {t} :
              registry'[u] = registry[u] /\ buckets'[u] = buckets[u]]_vars

\* a cleanup pass of the general tier has evicted an identity whose bucket in
\* the scrape tier is still there, less than one token in it
C17_Witness ==
    /\ "A" \notin DOMAIN registry["general"]
    /\ "A" \in DOMAIN registry["scrape"]
    /\ Tokens(buckets["scrape"][registry["scrape"]["A"]],
              quota["scrape"], quota["scrape"], now) < TicksPerSec

\* ------------------------------------------------------------ cleanup pass
\* C21: a cleanup pass at clock reading now leaves no entry with
\* ExpiresAt <= now, removes no entry with ExpiresAt > now, and every entry a
\* Get would have found just before the pass is still there with its value
\* and its expiration.
C21_SweepRemovesExpired ==
    [][cleanup =>
          /\ \A k \in DOMAIN data' : ~(data'[k].ExpiresAt <= now)
          /\ \A k \in DOMAIN data :
                 data[k].ExpiresAt > now => k \in DOMAIN data' /\ data'[k] = data[k]
          /\ \A k \in DOMAIN data :
                 Get(data, k, now).found => k \in DOMAIN data' /\ data'[k] = data[k]]_vars

\* C21 with the boundary of the code: the pass removes the entries with
\* ExpiresAt < now and no other; an entry with ExpiresAt = now stays, as does
\* every entry a Get would have found just before the pass.
C21_SweepRemovesPast ==
    [][cleanup =>
          /\ DOMAIN data' = {k \in DOMAIN data : data[k].ExpiresAt >= now}
          /\ \A k \in DOMAIN data' : data'[k] = data[k]
          /\ \A k \in DOMAIN data :
                 Get(data, k, now).found => k \in DOMAIN data' /\ data'[k] = data[k]]_vars

\* a pass has just removed an entry and kept one whose ExpiresAt is the clock
\* reading of the pass
C21_Witness ==
    /\ ret.op = "cleanup"
    /\ ret.expired >= 1
    /\ \E k \in DOMAIN data : data[k].ExpiresAt = ret.at

\* ------------------------------------------------------------ CleanupOldEntries
\* C22: the pass evicts exactly the buckets that are full when it visits
\* them.  A bucket with fewer tokens than the burst (after the refill up to
\* the clock reading of the visit) stays in the map, the same instance with
\* the same state, and a later GetLimiter of a registered identity returns
\* that instance untouched; a bucket with as many tokens as the burst leaves
\* the map; no other entry of the map changes.
C22_EvictsExactlyFull ==
    [][/\ \A key \in IPs : CleanupVisit(key) =>
              LET a == limiters[key]
                  tokens == Tokens(heap[a], rps, burst, now)
              IN /\ tokens = burst * TicksPerSec => key \notin DOMAIN limiters'
                 /\ tokens < burst * TicksPerSec =>
                        /\ key \in DOMAIN limiters'
                        /\ limiters'[key] = a
                        /\ a \in DOMAIN heap' /\ heap'[a] = heap[a]
                 /\ \A other \in DOMAIN limiters \ {key} :
                        other \in DOMAIN limiters' /\ limiters'[other] = limiters[other]
       /\ \A r \in Reqs, ip \in IPs :
              GetLimiter(r, ip) /\ ip \in DOMAIN limiters =>
                  /\ req'[r].lim = limiters[ip]
                  /\ heap'[limiters[ip]] = heap[limiters[ip]]
                  /\ limiters' = limiters]_vars

\* a pass has visited every key: the bucket of A, less than full, is still in
\* the map and B, which had a bucket, has none
C22_Witness ==
    /\ mu = "cleanup" /\ pending = {}
    /\ "A" \in DOMAIN limiters
    /\ Tokens(heap[limiters["A"]], rps, burst, now) < burst * TicksPerSec
    /\ "B" \notin DOMAIN limiters
    /\ stat["B"].win # "unseen"

\* ------------------------------------------------------------ construction
\* C23: a configuration that is not valid is rejected at construction: a cache
\* whose TTL is zero or negative, and a limiter whose burst or rate is zero or
\* negative, is no usable component -- the cache never stores an entry and the
\* limiter never hands out a bucket.
C23_InvalidConfigRejected ==
    /\ ttl <= 0 => data = << >> /\ \A k \in Keys : ~hist[k].set
    /\ (burst <= 0 \/ rps <= 0) => limiters = << >> /\ heap = << >>

\* ------------------------------------------------------------ Stats
\* C24 as stated: a Stats at clock reading now reports as total the number of
\* entries present, as expired the number of them with ExpiresAt <= now (an
\* entry with ExpiresAt = now counts as expired) and as active the difference.
C24_StatsCountsUpToNow ==
    [][\A g \in Callers : Stats(g) =>
          /\ ret'.total = Cardinality(DOMAIN data)
          /\ ret'.expired = Cardinality({k \in DOMAIN data : data[k].ExpiresAt <= now})
          /\ ret'.active = ret'.total - ret'.expired]_vars

\* C24 with the boundary of the code: expired is the number of entries with
\* ExpiresAt < now, so an entry with ExpiresAt = now counts as active.
C24_StatsCountsPast ==
    [][\A g \in Callers : Stats(g) =>
          /\ ret'.total = Cardinality(DOMAIN data)
          /\ ret'.expired = Cardinality({k \in DOMAIN data : data[k].ExpiresAt < now})
          /\ ret'.active = ret'.total - ret'.expired
          /\ \A k \in DOMAIN data : data[k].ExpiresAt = now => ret'.active >= 1]_vars

\* a Stats has counted one entry as expired and, as active, one whose
\* ExpiresAt is the clock reading of the Stats
C24_Witness ==
    /\ ret.op = "Stats"
    /\ ret.expired = 1 /\ ret.active = 1
    /\ \E k \in DOMAIN data : data[k].ExpiresAt = ret.at

\* ------------------------------------------------------------ reads
\* C25: no step of a Get or of a Stats changes the map, whatever the Get
\* finds; the map changes only in a Set, a Delete or a cleanup pass, and the
\* total of a Stats counts every entry present, the expired ones included.
C25_ReadsLeaveStore ==
    [][/\ \A g \in Callers :
              \/ \E k \in Keys : GetRLock(g, k)
              \/ GetReturn(g)
              \/ StatsRLock(g) \/ StatsLen(g) \/ Stats(g)
              => data' = data
       /\ data' # data =>
              \/ \E g \in Callers : SetStoreData(g) \/ SetStoreExpiresAt(g) \/ Delete(g)
              \/ cleanup
       /\ \A g \in Callers : Stats(g) =>
              /\ ret'.total = Cardinality(DOMAIN data')
              /\ ret'.expired = Cardinality(Expired(data', now))]_vars

\* a Stats has counted an entry for every key, every one of them expired
C25_Witness ==
    /\ ret.op = "Stats"
    /\ ret.total = Cardinality(Keys)
    /\ ret.expired = ret.total

\* ------------------------------------------------------------ cleanup, in time
\* C26: with the cleanup goroutine scheduled, no entry stays in the map
\* expired for ever -- an entry that has expired is in the end removed unless
\* a Set writes it anew -- and time and again the map holds no expired entry
\* at all, so their number does not grow without bound.
C26_ExpiredEventuallyRemoved ==
    /\ \A k \in Keys :
           []<>(k \notin DOMAIN data \/ ~After(now, data[k].ExpiresAt))
    /\ []<>(Expired(data, now) = {})

\* a pass has just removed the entry of every key, all of them expired and
\* none written again
C26_Witness ==
    /\ ret.op = "cleanup"
    /\ ret.expired = Cardinality(Keys)
    /\ data = << >>
    /\ \A k \in Keys : hist[k].set /\ hist[k].removed

\* ------------------------------------------------------------ locking
\* the callers inside the critical section of a Get or a Stats
Reading == {g \in Callers : call[g].pc \in {"get", "stats", "statsmid"}}

\* the callers inside the critical section of a Set or a Delete, and the
\* cleanup goroutine while it is inside a pass
Writing ==
    {g \in Callers : call[g].pc \in {"set", "setmid", "delete"}}
        \cup (IF swpc = "locked" THEN {"cleanup"} ELSE {})

\* C27: at most one writer (Set, Delete, cleanup pass) is inside its critical
\* section, and then no reader (Get, Stats) is; the mutex is held by exactly
\* the operations that are inside, so an operation that has returned has
\* released it; and nothing is ever stuck: an operation that is inside can
\* take its next step, and when nobody is inside every operation can start.
C27_LockDiscipline ==
    /\ Cardinality(Writing) <= 1
    /\ Writing # {} => Reading = {}
    /\ mutex.readers = Reading
    /\ mutex.writer = (IF Writing = {} THEN NoCaller ELSE CHOOSE w \in Writing : TRUE)
    /\ \A g \in Callers : call[g].pc # "idle" =>
           ENABLED (\/ GetReturn(g)
                    \/ SetStoreData(g) \/ SetStoreExpiresAt(g)
                    \/ Delete(g)
                    \/ StatsLen(g) \/ Stats(g))
    /\ swpc = "locked" => ENABLED cleanup
    /\ (Writing = {} /\ Reading = {}) =>
           /\ ENABLED cleanupLock
           /\ \A g \in Callers :
                  /\ ENABLED GetRLock(g, "k1")
                  /\ ENABLED SetLock(g, "k1", "v1")
                  /\ ENABLED DeleteLock(g, "k1")
                  /\ ENABLED StatsRLock(g)
    /\ Writing = {} => \A g \in Callers \ Reading :
           ENABLED GetRLock(g, "k1") /\ ENABLED StatsRLock(g)

\* two readers are inside their critical sections at the same time, one in a
\* Get and one in a Stats
C27_Witness ==
    /\ call["c1"].pc = "get"
    /\ call["c2"].pc = "statsmid"
    /\ mutex.readers = {"c1", "c2"}

\* ------------------------------------------------------------ scraper calls
\* C28: while a request is inside the call of the scraper it holds no lock of
\* the cache, and the other requests are not kept waiting by it: one that is
\* at a middleware gets its limiter, and, unless the cleanup pass is inside
\* the cache just then, one that is at its handler completes its Get or its
\* Stats and one that has its result completes its Set.
C28_NoLockAcrossScrape ==
    \A q \in Conns : conn[q].pc = "scraping" =>
        /\ q \notin mutex.readers
        /\ mutex.writer # q
        /\ \A x \in Conns \ {q} :
               /\ conn[x].pc = "mw" => ENABLED MiddlewareGetLimiter(x)
               /\ (conn[x].pc = "handler" /\ swpc # "locked") =>
                      ENABLED (\/ healthCheck(x) \/ HandlerDebug(x)
                               \/ HandlerHit(x) \/ HandlerMiss(x))
               /\ (conn[x].pc = "store" /\ swpc # "locked") =>
                      ENABLED HandlerStore(x)

\* while q1 is inside the call of the scraper, the other request has just
\* stored its own result and answered
C28_Witness ==
    /\ conn["q1"].pc = "scraping"
    /\ conn["q1"].route \in ApiRoutes
    /\ out.status = 200 /\ out.cache = "MISS"

\* ------------------------------------------------------------ refusals
\* C29: a request that is refused has changed nothing: no tier has taken a
\* token from its identity for it -- a request the scrape tier refuses has not
\* consumed a token of the general tier -- and the refusal itself leaves the
\* cache, the registries and the buckets of the identity as they were.
C29_DenialWithoutEffect ==
    [][\A q \in Conns : MiddlewareDeny(q) =>
          /\ conn[q].adm = {}
          /\ data' = data
          /\ registry' = registry
          /\ \A t \in Tiers :
                 LET key == LimiterKey(conn[q].ip) IN
                 key \in DOMAIN registry[t] =>
                     buckets'[t][registry[t][key]] = buckets[t][registry[t][key]]]_vars

\* ------------------------------------------------------------ X-RateLimit-Remaining
\* C30: the X-RateLimit-Remaining of a granted request is the whole number of
\* tokens its own Allow left in the bucket, also when other requests of the
\* identity run at the same time (nothing being refilled in between); that
\* number lies in 0..burst-1; and the requests of an identity that come one
\* after the other, with nothing refilled, read burst-1, burst-2, ... one
\* less with every grant.
C30_RemainingIsOwn ==
    [][\A r \in Reqs :
          /\ RateLimitAllow(r) =>
                 0 <= req'[r].left /\ req'[r].left <= burst - 1
          /\ RateLimitNext(r) =>
                 /\ req[r].at = now => resp'.remaining = req[r].left
                 /\ stat[req[r].ip].win = "open" =>
                        resp'.remaining = burst - stat[req[r].ip].ok]_vars

\* ------------------------------------------------------------ derived endpoints
\* the routes whose handler serves a part of the full reading stats
PartRoutes == {"/api/v1/reading-stats/:username/favorites",
               "/api/v1/reading-stats/:username/study"}

\* C31: when the favorites or the study key of a user misses while the full
\* stats of that user are in the cache, unexpired, under the stats key, the
\* handler takes the stats from the cache: it does not call the scraper.
C31_PartFromCachedStats ==
    [][\A q \in Conns :
          (HandlerMiss(q) /\ conn[q].route \in PartRoutes) =>
              ~Get(data, CacheKey("/api/v1/reading-stats/:username", conn[q].user),
                   now).found]_vars

\* ------------------------------------------------------------ entries
\* C32: whenever no Set is in the middle of its assignment, every entry in the
\* map is the value of the last Set of its key together with the expiry
\* that same Set computed, its clock reading plus the TTL; and the map changes
\* in no step other than those of a Set, a Delete or a cleanup pass.
C32_EntryOfOneSet ==
    /\ [](mutex.writer = NoCaller =>
             \A k \in DOMAIN data :
                 /\ hist[k].set /\ ~hist[k].removed
                 /\ data[k] = CacheItem(hist[k].val, hist[k].at + ttl))
    /\ [][\A g \in Callers :
             /\ SetStoreData(g) => call'[g].tmp = now + ttl
             /\ SetStoreExpiresAt(g) =>
                    /\ data'[call[g].key] = CacheItem(call[g].val, call[g].tmp)
                    /\ hist'[call[g].key].at + ttl = call[g].tmp]_vars
    /\ [][data' # data =>
             \/ \E g \in Callers : SetStoreData(g) \/ SetStoreExpiresAt(g) \/ Delete(g)
             \/ cleanup]_vars

\* with nobody inside the cache, the map holds an entry that a Set wrote over
\* an earlier one, some time after the start
C32_Witness ==
    /\ mutex.writer = NoCaller
    /\ \E k \in DOMAIN data :
           /\ hist[k].over /\ hist[k].at >= 1
           /\ data[k].ExpiresAt = hist[k].at + ttl

\* ------------------------------------------------------------ other keys, other identities
\* key k is in the map what it was, and a Get of it at this instant returns
\* what it returned
SameEntry(k) ==
    /\ (k \in DOMAIN data) <=> (k \in DOMAIN data')
    /\ k \in DOMAIN data => data'[k] = data[k]
    /\ Get(data', k, now) = Get(data, k, now)

\* C33: no step of a Set(k, _) or of a Delete(k) changes another key: its
\* presence, its value, its expiry and what a Get of it returns at that
\* instant stay as they were; and an Allow for identity A, granted or
\* refused, changes no field of a bucket of another identity nor its place in
\* the registry.
C33_OnlyItsOwn ==
    [][/\ \A g \in Callers :
              \/ \E k \in Keys, v \in Values : SetLock(g, k, v)
              \/ SetStoreData(g) \/ SetStoreExpiresAt(g)
              \/ \E k \in Keys : DeleteLock(g, k)
              \/ Delete(g)
              => \A k \in Keys \ {call'[g].key, call[g].key} : SameEntry(k)
       /\ \A r \in Reqs :
              RateLimitAllow(r) \/ RateLimitDeny(r)
              => \A b \in IPs \ {req[r].ip} : Untouched(b)]_vars

\* k1 was set and deleted while k2 stayed in the map, and A's bucket is empty
\* while B's, just handed out, is full
C33_Witness ==
    /\ hist["k1"].set /\ hist["k1"].removed /\ "k1" \notin DOMAIN data
    /\ "k2" \in DOMAIN data /\ data["k2"] = CacheItem("v2", hist["k2"].at + ttl)
    /\ {"A", "B"} \subseteq DOMAIN limiters
    /\ heap[limiters["A"]].tokens = 0
    /\ heap[limiters["B"]].tokens = burst * TicksPerSec

\* ------------------------------------------------------------ background tasks
\* the identities whose bucket in tier t a cleanup pass would evict now
OldIn(t) ==
    {k \in DOMAIN registry[Registry(t)] :
        IsOld(buckets[Registry(t)][registry[Registry(t)][k]], quota[t], quota[t], now)}

\* C34: the cleanup goroutine of the cache and the cleanup goroutine of each
\* tier exist from construction on and are never stopped: in every reachable
\* state the goroutine of the cache is waiting for its ticker or inside a
\* pass, a pass that is inside can finish, the next pass of the cache can
\* start as soon as the mutex is free, and a pass of either tier can run
\* whenever there is a bucket for it to evict.
C34_TasksNeverStop ==
    /\ swpc \in {"wait", "locked"}
    /\ swpc = "locked" => ENABLED cleanup
    /\ (swpc = "wait" /\ CanLock(mutex)) => ENABLED cleanupLock
    /\ \A t \in Tiers : OldIn(t) # {} => ENABLED TierCleanup(t)

\* every request has been answered, one of them with a scraped result, and
\* at the last instant the cache has just run a pass and the passes of both
\* tiers have emptied their registries
C34_Witness ==
    /\ nconn = MaxServed /\ \A q \in Conns : conn[q].pc = "idle"
    /\ \E k \in CacheKeys : served[k].set
    /\ now = MaxTime
    /\ ret.op = "cleanup"
    /\ \A t \in Tiers : registry[t] = << >>

\* ------------------------------------------------------------ scraper errors
\* C35: a request whose scraper call fails answers 500 and is over, without a
\* Set: neither its miss nor its failure changes the map, a key nothing was
\* ever stored for is still absent afterwards -- so the next request for it
\* misses and calls the scraper again -- and at no time does the map hold
\* anything but the result of a scraper call that succeeded.
C35_ErrorStoresNothing ==
    /\ [](\A k \in DOMAIN data : served[k].set /\ data[k].Data \in Values)
    /\ [][\A q \in Conns :
             LET k == CacheKey(conn[q].route, conn[q].user) IN
             /\ HandlerMiss(q) => data' = data
             /\ HandlerScraped(q, "error") =>
                    /\ out'.status = 500
                    /\ conn'[q] = IdleConn
                    /\ data' = data
                    /\ (conn[q].route \in ApiRoutes /\ ~served[k].set) =>
                           /\ k \notin DOMAIN data'
                           /\ ~Get(data', k, now).found]_vars

\* both requests have been answered, the last one with a 500 for a key that
\* is not in the map
C35_Witness ==
    /\ out.status = 500 /\ out.route \in ApiRoutes
    /\ CacheKey(out.route, "u1") \notin DOMAIN data
    /\ nconn = MaxServed /\ \A q \in Conns : conn[q].pc = "idle"

\* ------------------------------------------------------------ overlapping misses
\* C36: nothing holds a request back because another one is already fetching
\* the same key: a request whose Get misses goes on to the scraper, and one
\* that has its result stores it, whatever the other request is doing -- so
\* two scraper calls for one key can be under way at once -- and each Set
\* replaces what is there: the entry that remains is the one of the last Set,
\* expiring one TTL after that Set.
C36_NoSingleFlight ==
    /\ [](\A q \in Conns :
             LET k == CacheKey(conn[q].route, conn[q].user) IN
             /\ (conn[q].pc = "handler" /\ conn[q].route \in ApiRoutes
                   /\ CanRLock(mutex) /\ ~Get(data, k, now).found)
                    => ENABLED HandlerMiss(q)
             /\ (conn[q].pc = "store" /\ CanLock(mutex)) => ENABLED HandlerStore(q))
    /\ [][\A q \in Conns :
             LET k == CacheKey(conn[q].route, conn[q].user) IN
             HandlerStore(q) =>
                 /\ data'[k] = CacheItem(conn[q].val, now + ttl)
                 /\ \A x \in DOMAIN data \ {k} : data'[x] = data[x]
                 /\ Get(data', k, now) =
                        [found |-> ttl >= 0, val |-> IF ttl >= 0 THEN conn[q].val ELSE "nil",
                         exp |-> IF ttl >= 0 THEN now + ttl ELSE ZeroTime]]_vars

\* both requests missed the same key and called the scraper; the one has
\* stored its result, which has not expired, and the other now holds a
\* different result that it is about to store over it
C36_Witness ==
    /\ conn["q1"].pc = "store"
    /\ LET k == CacheKey(conn["q1"].route, conn["q1"].user) IN
         /\ Get(data, k, now).found
         /\ served[k].set /\ data[k].Data = served[k].val
         /\ data[k].Data # conn["q1"].val

\* ------------------------------------------------------------ one notion of expiry
\* the keys a Get would find at clock reading t
Visible(m, t) == {k \in DOMAIN m : Get(m, k, t).found}

\* C37: Get, Stats and the cleanup pass draw the line at the same instant: a
\* Stats counts as active exactly the entries a Get would find at its clock
\* reading and as expired exactly the others, and a cleanup pass removes
\* exactly the entries a Stats at its clock reading would count as expired,
\* which are the ones no Get would find.
C37_OneExpiry ==
    [][/\ \A g \in Callers : Stats(g) =>
              /\ ret'.active = Cardinality(Visible(data, now))
              /\ ret'.expired = Cardinality(DOMAIN data \ Visible(data, now))
       /\ cleanup =>
              /\ DOMAIN data' = Visible(data, now)
              /\ ret'.expired = Cardinality(DOMAIN data \ Visible(data, now))
              /\ ret'.total = Cardinality(Visible(data, now))]_vars

\* a Stats has counted every key as active, one of them at the very instant
\* of its expiry
C37_Witness ==
    /\ ret.op = "Stats"
    /\ ret.active = Cardinality(Keys)
    /\ \E k \in DOMAIN data : data[k].ExpiresAt = ret.at

\* ------------------------------------------------------------ staleness of hits
\* the entry of key k is in the map and past its expiry
Stale(k) == k \in DOMAIN data /\ After(now, data[k].ExpiresAt)

\* C38: a response marked X-Cache: HIT carries the value of the latest Set of
\* its key, and that Set happened no more than ttl before the handler's Get;
\* a request whose Get comes when the entry of its key has expired cannot be
\* a HIT: it takes the miss path, calls the scraper, and the Set of its result
\* puts a fresh entry, expiring ttl from that Set, in the place of the old.
C38_BoundedStaleness ==
    /\ [](\A q \in Conns :
             LET k == CacheKey(conn[q].route, conn[q].user) IN
             (conn[q].pc = "handler" /\ conn[q].route \in ApiRoutes /\ Stale(k))
                 => /\ ~ENABLED HandlerHit(q)
                    /\ CanRLock(mutex) => ENABLED HandlerMiss(q))
    /\ [][\A q \in Conns :
             LET k == CacheKey(conn[q].route, conn[q].user) IN
             /\ HandlerHit(q) =>
                   /\ out'.cache = "HIT"
                   /\ served[k].set /\ out'.body = served[k].val
                   /\ now - served[k].at <= ttl
             /\ HandlerMiss(q) =>
                   /\ conn'[q].pc = "scraping"
                   /\ served[k].set => now - served[k].at > ttl
             /\ (HandlerStore(q) /\ Stale(k)) =>
                   /\ out'.cache = "MISS"
                   /\ data'[k] = CacheItem(conn[q].val, now + ttl)
                   /\ served'[k].at = now
                   /\ ~Stale(k)']_vars

\* a HIT has carried a value at the greatest age a HIT can have: its Set
\* happened exactly ttl before the Get
C38_Witness ==
    /\ out.cache = "HIT"
    /\ ttl > 0
    /\ \E k \in CacheKeys :
          /\ served[k].set /\ out.body = served[k].val
          /\ now - served[k].at = ttl

====
